---- MODULE Spec2Model ----
(***************************************************************************)
(* A model of the ADSBtool analysis pipeline (src/src/analysis.py):        *)
(* AircraftMapAnalyzer.load_data, create_static_map, create_time_animation,*)
(* create_flight_paths, create_heatmap, generate_statistics and debug_data,*)
(* and of Scrapper.save_to_csv (src/src/scrapper.py), which writes the CSV *)
(* file the analyzer loads.                                                *)
(*                                                                         *)
(* Time is counted in ticks of 1/TicksPerSec second, so that sub-second    *)
(* timestamps (datetime.now().isoformat() keeps microseconds) and the      *)
(* truncation done by strftime('%Y-%m-%dT%H:%M:%S') are both visible.      *)
(* An optional CSV cell is <<>> when empty (NaN) and <<v>> when it holds v.*)
(***************************************************************************)
EXTENDS Integers, Sequences, FiniteSets, TLC

VARIABLES
    file,   \* the CSV file named by self.csv_file
    data,   \* self.data, the loaded store (a sequence of rows, index kept)
    pc,     \* "new" before load_data has run, "loaded" after
    log,    \* what load_data printed: "none", "loaded" or "error"
    err,    \* the exception that escaped the last call, "none" if none
    out,    \* the result of the last synthesis call
    argsort,\* the tie orders numpy's argsort has produced so far
    csv,    \* the file Scrapper.save_to_csv writes, line by line
    saved   \* the file save_to_csv started from, and the batches it was
            \* called with, in call order

vars == <<file, data, pc, log, err, out, argsort, csv, saved>>

-----------------------------------------------------------------------------
(* Bounds of the model *)

MaxRows == 3
MaxDeltas == 4
MaxMinPoints == 2
MaxTrackRows == 4
MaxStatRows == 3
MaxFleet == 22
MaxBatch == 2
MaxCalls == 3
TicksPerSec == 2

(* Program constants *)

DefaultInterval == 60
ShortInterval == 30
LongInterval == 120
HighAltitude == 10000
MediumAltitude == 5000
TopN == 10

-----------------------------------------------------------------------------
(* The input domain *)

Icao24Vals == {"aaa", "bbb"}

\* The icao24 strings of the model, in lexicographic order.
Icao24Order ==
    << "aaa", "bbb", "c01", "c02", "c03", "c04", "c05", "c06", "c07", "c08",
       "c09", "c10", "c11", "c12", "c13", "c14", "c15", "c16", "c17", "c18",
       "c19", "c20", "c21", "c22", "c23", "c24" >>

\* Lexicographic rank of an icao24 string.
IcaoRank(s) == CHOOSE k \in 1 .. Len(Icao24Order) : Icao24Order[k] = s

GoodTs(t) == [ok |-> TRUE, t |-> t]
BadTs == [ok |-> FALSE, t |-> 0]

\* A row of the file with all the columns the analyzer reads.
RowWith(ts, id, lat, lon, baro, geo, callsign, velocity) ==
    [timestamp |-> ts, icao24 |-> id, latitude |-> lat, longitude |-> lon,
     baro_altitude |-> baro, geo_altitude |-> geo, callsign |-> callsign,
     velocity |-> velocity]

\* A row of an aircraft cruising at 11000 m and 230 m/s, callsign known.
Row(ts, id, lat, lon) ==
    RowWith(ts, id, lat, lon, <<11000>>, <<>>, << <<"U", "A", "1">> >>, <<230>>)

\* Instants of the rows, in ticks.
TsVals == {0, 1, 2}

\* Rows with every field well formed: aircraft aaa at three instants and
\* two positions, aircraft bbb at one instant and one position.
ValidRows ==
    { Row(GoodTs(t), "aaa", <<10>>, <<lon>>) : t \in TsVals, lon \in {20, 21} }
        \cup { Row(GoodTs(1), "bbb", <<10>>, <<20>>) }

\* Rows with one anomaly each: latitude missing, longitude missing,
\* latitude out of the range +-90, timestamp text that does not parse.
AnomalousRows ==
    { Row(GoodTs(0), "aaa", <<>>, <<20>>),
      Row(GoodTs(0), "bbb", <<10>>, <<>>),
      Row(GoodTs(1), "bbb", <<95>>, <<20>>),
      Row(BadTs, "aaa", <<10>>, <<20>>) }

\* The rows of the inputs of load_data: two instants, two aircraft, and the
\* anomalous rows.
LoadRows ==
    { Row(GoodTs(t), id, <<10>>, <<20>>) : t \in {0, 1}, id \in Icao24Vals }
        \cup AnomalousRows

SeqsUpTo(S, n) == UNION { [1 .. k -> S] : k \in 0 .. n }

CsvFile(rows) == [readable |-> TRUE, rows |-> rows]

\* A file pd.read_csv cannot read: missing, empty, or not tabular.
Unreadable == [readable |-> FALSE, rows |-> <<>>]

\* Files of well-formed rows, in any order.
ValidFiles == { CsvFile(rs) : rs \in SeqsUpTo(ValidRows, MaxRows) }

\* Files with anomalous rows among well-formed ones, and the unreadable file.
LoadFiles == { CsvFile(rs) : rs \in SeqsUpTo(LoadRows, MaxRows) } \cup {Unreadable}

\* The gaps between consecutive polls, in ticks: 10 s, just under 30 s,
\* 30 s, just under 120 s, 120 s, 200 s.
DeltaVals ==
    { 10 * TicksPerSec, (30 * TicksPerSec) - 1, 30 * TicksPerSec,
      (120 * TicksPerSec) - 1, 120 * TicksPerSec, 200 * TicksPerSec }

RECURSIVE SumTo(_, _)
SumTo(deltas, k) == IF k = 0 THEN 0 ELSE SumTo(deltas, k - 1) + deltas[k]

\* The file the polling loop leaves when every poll saw one aircraft: rows
\* in time order, the gaps as given; one aircraft throughout, or two taking
\* turns.
PolledFile(deltas, two) ==
    CsvFile([k \in 1 .. (Len(deltas) + 1) |->
        Row(GoodTs(SumTo(deltas, k - 1)),
            IF two /\ k % 2 = 0 THEN "bbb" ELSE "aaa",
            <<10>>, <<20>>)])

PolledFiles ==
    { PolledFile(ds, two) : ds \in SeqsUpTo(DeltaVals, MaxDeltas), two \in BOOLEAN }
        \cup {CsvFile(<<>>)}

\* Files as the polling loop writes them, row k at instant k - 1: each row
\* one of two aircraft at one of three positions.
TrackFiles ==
    { CsvFile([k \in 1 .. Len(cells) |->
                Row(GoodTs(k - 1), cells[k][1], <<10>>, <<cells[k][2]>>)])
      : cells \in SeqsUpTo(Icao24Vals \X {20, 21, 22}, MaxTrackRows) }

\* The rows of aircraft k of a fleet, polled at instants of its own: three
\* positions for the first aircraft, two for the others, and a single
\* record for every aircraft whose number is a multiple of lone.
FleetRowsOf(k, lone) ==
    LET id == Icao24Order[k]
        at(j) == Row(GoodTs((3 * k) + j), id, <<10>>, <<20 + j>>)
    IN  IF lone > 0 /\ k % lone = 0 THEN <<at(0)>>
        ELSE IF k = 1 THEN <<at(0), at(1), at(2)>>
        ELSE <<at(0), at(1)>>

RECURSIVE FleetRows(_, _, _)
FleetRows(k, n, lone) ==
    IF k > n THEN <<>>
    ELSE FleetRowsOf(k, lone) \o FleetRows(k + 1, n, lone)

\* Files with the records of a fleet of up to MaxFleet aircraft, more than
\* the palette has colors.
FleetFiles ==
    { CsvFile(FleetRows(1, n, lone)) : n \in 0 .. MaxFleet, lone \in {0, 3, 8} }

\* Callsigns as the file holds them: plain, padded with a blank, and
\* nothing but blanks (an aircraft that sent no callsign).
CallsignUA == <<"U", "A">>
CallsignUAPadded == <<"U", "A", " ">>
CallsignDL == <<"D", "L">>
CallsignBlank == <<" ", " ">>

\* The cells of a row besides its instant and position: icao24, barometric
\* altitude, geometric altitude, callsign, velocity, each of the last four
\* present or empty.
StatCells ==
    { <<"aaa", <<>>, <<>>, <<>>, <<>>>>,
      <<"aaa", <<>>, <<15000>>, <<CallsignUA>>, <<230>>>>,
      <<"aaa", <<0>>, <<15000>>, <<CallsignBlank>>, <<230>>>>,
      <<"aaa", <<7000>>, <<>>, <<CallsignUA>>, <<>>>>,
      <<"bbb", <<12000>>, <<12500>>, <<CallsignDL>>, <<230>>>>,
      <<"bbb", <<12000>>, <<>>, <<CallsignUAPadded>>, <<230>>>> }

\* Files as the polling loop writes them, row k at instant k - 1 and at
\* one position, with the cells above.
StatFiles ==
    { CsvFile([k \in 1 .. Len(cells) |->
                RowWith(GoodTs(k - 1), cells[k][1], <<10>>, <<20>>,
                        cells[k][2], cells[k][3], cells[k][4], cells[k][5])])
      : cells \in SeqsUpTo(StatCells, MaxStatRows) }

-----------------------------------------------------------------------------
(* load_data *)

\* pd.read_csv: the rows of the file as a frame; row k of the file gets the
\* index label k, which every later step keeps.
ReadCsv(f) ==
    [k \in 1 .. Len(f.rows) |->
        [idx |-> k,
         timestamp |-> f.rows[k].timestamp,
         icao24 |-> f.rows[k].icao24,
         latitude |-> f.rows[k].latitude,
         longitude |-> f.rows[k].longitude,
         baro_altitude |-> f.rows[k].baro_altitude,
         geo_altitude |-> f.rows[k].geo_altitude,
         callsign |-> f.rows[k].callsign,
         velocity |-> f.rows[k].velocity]]

\* pd.read_csv raises on a file that is missing, empty or not tabular.
ReadCsvRaises(f) == ~f.readable

\* pd.to_datetime with errors='ignore': nothing raises.
ToDatetimeNeverRaises(frame) == FALSE

\* pd.to_datetime(column) with errors='raise' (the default): one cell that
\* does not parse raises for the whole column.
ToDatetimeRaises(frame) ==
    \E k \in 1 .. Len(frame) : ~frame[k].timestamp.ok

\* pd.to_datetime on a column that parses: every cell becomes its instant.
ToDatetime(frame) ==
    [k \in 1 .. Len(frame) |->
        [frame[k] EXCEPT !.timestamp = frame[k].timestamp.t]]

\* The subsequence of the rows of frame that satisfy Keep, in order.
RECURSIVE SelectRows(_, _)
SelectRows(frame, keep) ==
    IF frame = <<>> THEN <<>>
    ELSE IF Head(frame).idx \in keep
         THEN <<Head(frame)>> \o SelectRows(Tail(frame), keep)
         ELSE SelectRows(Tail(frame), keep)

\* dropna with how='all': a row goes only when both cells are NaN.
DropnaCoordsBoth(frame) ==
    SelectRows(frame,
        { frame[k].idx : k \in { j \in 1 .. Len(frame) :
            frame[j].latitude # <<>> \/ frame[j].longitude # <<>> } })

\* dropna(subset=['latitude', 'longitude']): a row goes when either cell is
\* NaN; nothing else about the cell is looked at.
DropnaCoords(frame) ==
    SelectRows(frame,
        { frame[k].idx : k \in { j \in 1 .. Len(frame) :
            frame[j].latitude # <<>> /\ frame[j].longitude # <<>> } })

\* The orders sort_values('timestamp') can produce. One sort column, so
\* pandas sorts with kind='quicksort', which is not stable: rows come out
\* by timestamp, rows of equal timestamp in any order.
RECURSIVE SortOrders(_, _)
SortOrders(frame, left) ==
    IF left = {} THEN {<<>>}
    ELSE LET first == { i \in left :
                        \A j \in left : frame[i].timestamp <= frame[j].timestamp }
         IN  UNION { { <<frame[i]>> \o rest : rest \in SortOrders(frame, left \ {i}) }
                     : i \in first }

\* The frame left as it is: the sort forgotten.
SortValuesForgotten(frame) == {frame}

SortValuesTimestamp(frame) == SortOrders(frame, 1 .. Len(frame))

\* The timestamps of the rows, the one column argsort looks at.
Keys(frame) == [k \in 1 .. Len(frame) |-> frame[k].timestamp]

HasTies(keys) ==
    \E i, j \in 1 .. Len(keys) : i < j /\ keys[i] = keys[j]

\* The permutation that takes frame to order: place k of order holds the
\* row at place PermOf(frame, order)[k] of frame.
PermOf(frame, order) ==
    [k \in 1 .. Len(order) |->
        CHOOSE j \in 1 .. Len(frame) : frame[j].idx = order[k].idx]

\* A sort whose tie order is drawn afresh at every call.
AgreesAlways(memo, frame, order) == TRUE

\* argsort is a function of the keys alone: the same timestamps come out
\* in the same permutation at every call of one run.
Agrees(memo, frame, order) ==
    \A m \in memo : m[1] = Keys(frame) => m[2] = PermOf(frame, order)

\* The permutations produced so far, with the one of this call.
Remember(memo, frame, order) ==
    IF HasTies(Keys(frame))
    THEN memo \cup {<<Keys(frame), PermOf(frame, order)>>}
    ELSE memo

\* The results sort_values('timestamp') can give in a run that has already
\* produced the permutations of memo.
SortValues(frame, memo) ==
    { order \in SortValuesTimestamp(frame) : Agrees(memo, frame, order) }

\* A handler that raises again what it caught.
EscapesAgain(raised) == IF raised THEN "LoadError" ELSE "none"

\* What leaves load_data when its body raised or not: the handler of
\* lines 44-46 catches every Exception and raises nothing itself.
Escapes(raised) == "none"

\* load_data: read, parse the timestamps, drop the rows without
\* coordinates, sort by timestamp; any exception is caught, printed and
\* leaves an empty frame.
LoadData ==
    /\ pc = "new"
    /\ LET raised == ReadCsvRaises(file) \/ ToDatetimeRaises(ReadCsv(file))
       IN  /\ IF raised
              THEN /\ data' = <<>>
                   /\ log' = "error"
                   /\ argsort' = argsort
              ELSE LET frame == DropnaCoords(ToDatetime(ReadCsv(file)))
                   IN  /\ data' \in SortValues(frame, argsort)
                       /\ argsort' = Remember(argsort, frame, data')
                       /\ log' = "loaded"
           /\ err' = Escapes(raised)
    /\ pc' = "loaded"
    /\ UNCHANGED <<file, out, csv, saved>>

-----------------------------------------------------------------------------
(* What every synthesis call shares *)

\* A guard that lets every store through.
NeverEmpty(frame) == FALSE

\* self.data.empty: the frame has no rows (it may have no columns either,
\* after a load that failed).
Empty(frame) == Len(frame) = 0

\* Python's truth value of a cell: NaN is true, zero is false.
Truthy(cell) == cell = <<>> \/ cell[1] # 0

\* a or b.
Or(a, b) == IF Truthy(a) THEN a ELSE b

\* Lines 73 and 158:
\*   row.get('baro_altitude', 0) or row.get('geo_altitude', 0) or 0
\* The columns exist, so get returns the cell, NaN when it is empty.
Altitude(row) == Or(Or(row.baro_altitude, row.geo_altitude), <<0>>)

\* Lines 74-79 and 159-164; a comparison with NaN is false.
AltitudeColor(altitude) ==
    IF altitude # <<>> /\ altitude[1] > HighAltitude THEN "red"
    ELSE IF altitude # <<>> /\ altitude[1] > MediumAltitude THEN "orange"
    ELSE "green"

\* What a call that has not produced anything leaves.
NoOut ==
    [op |-> "none", returned |-> "none", avg_interval |-> 0, period |-> "none",
     features |-> <<>>, min_points |-> 0, groups |-> <<>>, paths |-> <<>>,
     paths_created |-> 0, markers |-> <<>>, heat_data |-> <<>>,
     printed |-> <<>>]

-----------------------------------------------------------------------------
(* create_static_map *)

\* The circle marker of one row, lines 71-98.
Marker(row) ==
    [location |-> <<row.latitude, row.longitude>>,
     color |-> AltitudeColor(Altitude(row)),
     icao24 |-> row.icao24,
     timestamp |-> row.timestamp]

CreateStaticMap ==
    /\ pc = "loaded"
    /\ IF Empty(data)
       THEN out' = [NoOut EXCEPT !.op = "create_static_map", !.returned = "None"]
       ELSE out' = [NoOut EXCEPT
                !.op = "create_static_map",
                !.returned = "map",
                !.markers = [k \in 1 .. Len(data) |-> Marker(data[k])]]
    /\ UNCHANGED <<file, data, pc, log, err, argsort, csv, saved>>

-----------------------------------------------------------------------------
(* create_time_animation *)

\* A number of seconds in the unit of avg_interval: the median of two
\* instants in ticks is kept doubled, so that it stays an integer.
Seconds(n) == n * 2 * TicksPerSec

\* self.data['timestamp'].diff().dropna(): the differences of consecutive
\* rows of the whole store, in ticks (the first, NaT, is dropped).
Diff(frame) ==
    [k \in 1 .. (IF Len(frame) = 0 THEN 0 ELSE Len(frame) - 1) |->
        frame[k + 1].timestamp - frame[k].timestamp]

RECURSIVE InsertInt(_, _)
InsertInt(s, x) ==
    IF s = <<>> THEN <<x>>
    ELSE IF x < Head(s) THEN <<x>> \o s
         ELSE <<Head(s)>> \o InsertInt(Tail(s), x)

RECURSIVE SortInts(_)
SortInts(s) == IF s = <<>> THEN <<>> ELSE InsertInt(SortInts(Tail(s)), Head(s))

RECURSIVE SumInts(_)
SumInts(s) == IF s = <<>> THEN 0 ELSE Head(s) + SumInts(Tail(s))

\* Series.mean() in the place of the median, doubled like it.
Mean2(s) == (2 * SumInts(s)) \div Len(s)

\* Series.median() of a non-empty series: the middle value of the sorted
\* values, the mean of the two middle values when their number is even.
\* Kept doubled: in ticks it is Median2 / 2.
Median2(s) ==
    LET sorted == SortInts(s)
        n == Len(s)
    IN  sorted[((n - 1) \div 2) + 1] + sorted[(n \div 2) + 1]

\* avg_interval of lines 143-148, in the unit of Seconds.
AvgInterval(frame) ==
    LET time_diff == Diff(frame)
    IN  IF time_diff # <<>> THEN Median2(time_diff) ELSE Seconds(DefaultInterval)

\* The thresholds compared with <= : a boundary value falls in the lower
\* bracket.
PeriodBoundaryLow(avg_interval) ==
    IF avg_interval <= Seconds(ShortInterval) THEN "PT10S"
    ELSE IF avg_interval <= Seconds(LongInterval) THEN "PT30S"
    ELSE "PT1M"

\* The period chosen from avg_interval, lines 200-205.
Period(avg_interval) ==
    IF avg_interval < Seconds(ShortInterval) THEN "PT10S"
    ELSE IF avg_interval < Seconds(LongInterval) THEN "PT30S"
    ELSE "PT1M"

\* Whether row a sorts strictly before row b under ['timestamp', 'icao24'].
BeforeTsIcao(a, b) ==
    \/ a.timestamp < b.timestamp
    \/ a.timestamp = b.timestamp /\ IcaoRank(a.icao24) < IcaoRank(b.icao24)

RECURSIVE InsertTsIcao(_, _)
InsertTsIcao(s, r) ==
    IF s = <<>> THEN <<r>>
    ELSE IF BeforeTsIcao(r, Head(s)) THEN <<r>> \o s
         ELSE <<Head(s)>> \o InsertTsIcao(Tail(s), r)

\* The store iterated as it is, as create_static_map does.
SortValuesSkipped(frame) == frame

\* sort_values(['timestamp', 'icao24']): two sort columns, so pandas uses
\* its lexsort, which is stable; rows equal in both keep their order.
RECURSIVE SortValuesTsIcao(_)
SortValuesTsIcao(frame) ==
    IF frame = <<>> THEN <<>>
    ELSE InsertTsIcao(SortValuesTsIcao(SubSeq(frame, 1, Len(frame) - 1)),
                      frame[Len(frame)])

\* strftime('%Y-%m-%dT%H:%M:%S'): the instant cut to whole seconds.
Strftime(t) == t \div TicksPerSec

\* The feature built from one row, lines 156-194.
Feature(row) ==
    [time |-> Strftime(row.timestamp),
     coordinates |-> <<row.longitude, row.latitude>>,
     icao24 |-> row.icao24,
     timestamp |-> row.timestamp,
     color |-> AltitudeColor(Altitude(row))]

CreateTimeAnimation ==
    /\ pc = "loaded"
    /\ IF Empty(data)
       THEN out' = [NoOut EXCEPT !.op = "create_time_animation", !.returned = "None"]
       ELSE LET avg_interval == AvgInterval(data)
                sorted_data == SortValuesTsIcao(data)
            IN  out' = [NoOut EXCEPT
                    !.op = "create_time_animation",
                    !.returned = "map",
                    !.avg_interval = avg_interval,
                    !.features = [k \in 1 .. Len(sorted_data) |-> Feature(sorted_data[k])],
                    !.period = Period(avg_interval)]
    /\ UNCHANGED <<file, data, pc, log, err, argsort, csv, saved>>

-----------------------------------------------------------------------------
(* create_flight_paths *)

\* The palette of lines 255-258 has NumColors entries; a color is its
\* position in the palette.
NumColors == 18

MinPointsVals == 0 .. MaxMinPoints

RECURSIVE InsertKey(_, _)
InsertKey(s, id) ==
    IF s = <<>> THEN <<id>>
    ELSE IF IcaoRank(id) < IcaoRank(Head(s)) THEN <<id>> \o s
         ELSE <<Head(s)>> \o InsertKey(Tail(s), id)

RECURSIVE SortKeys(_)
SortKeys(ids) ==
    IF ids = {} THEN <<>>
    ELSE LET id == CHOOSE x \in ids : TRUE
         IN  InsertKey(SortKeys(ids \ {id}), id)

\* The keys of groupby('icao24'), in the order it iterates them: sorted.
GroupKeys(frame) == SortKeys({ frame[k].icao24 : k \in 1 .. Len(frame) })

\* One group of groupby('icao24'): the rows of that aircraft, in store order.
Group(frame, id) ==
    SelectRows(frame,
        { frame[k].idx : k \in { j \in 1 .. Len(frame) : frame[j].icao24 = id } })

\* reset_index(drop=True): the index labels become the positions.
ResetIndex(frame) ==
    [k \in 1 .. Len(frame) |-> [frame[k] EXCEPT !.idx = k]]

\* drop_duplicates with keep='last': a row goes when any later row of the
\* frame has the same pair.
DropDuplicatesKeepLast(frame) ==
    SelectRows(frame,
        { frame[k].idx : k \in { j \in 1 .. Len(frame) :
            \A i \in (j + 1) .. Len(frame) :
                <<frame[i].latitude, frame[i].longitude>>
                    # <<frame[j].latitude, frame[j].longitude>> } })

\* Only runs collapsed: a row goes when the row just before it has the
\* same pair.
DropConsecutiveDuplicates(frame) ==
    SelectRows(frame,
        { frame[k].idx : k \in { j \in 1 .. Len(frame) :
            j = 1 \/ <<frame[j - 1].latitude, frame[j - 1].longitude>>
                        # <<frame[j].latitude, frame[j].longitude>> } })

\* drop_duplicates(subset=['latitude', 'longitude'], keep='first'): a row
\* goes when any earlier row of the frame has the same pair.
DropDuplicates(frame) ==
    SelectRows(frame,
        { frame[k].idx : k \in { j \in 1 .. Len(frame) :
            \A i \in 1 .. (j - 1) :
                <<frame[i].latitude, frame[i].longitude>>
                    # <<frame[j].latitude, frame[j].longitude>> } })

\* The groups after line 266 from key k on, one per key in iteration
\* order: each sorted by timestamp (one sort column: ties in an order that
\* agrees with the permutations of memo) and re-indexed; with them, the
\* permutations produced by the end of the loop.
RECURSIVE SortedGroupsFrom(_, _, _, _)
SortedGroupsFrom(frame, keys, k, memo) ==
    IF k > Len(keys) THEN {[groups |-> <<>>, memo |-> memo]}
    ELSE LET group == Group(frame, keys[k])
         IN  UNION { { [groups |-> <<ResetIndex(order)>> \o rest.groups,
                        memo |-> rest.memo]
                       : rest \in SortedGroupsFrom(frame, keys, k + 1,
                                                   Remember(memo, group, order)) }
                     : order \in SortValues(group, memo) }

SortedGroups(frame, memo) == SortedGroupsFrom(frame, GroupKeys(frame), 1, memo)

\* The group's size alone decides: the checks after the duplicates are
\* dropped left out.
DrawsBySize(group, min_points) == Len(group) >= min_points

\* Whether the loop body of lines 269-349 draws a path for this group.
Draws(group, min_points) ==
    /\ Len(group) >= min_points
    /\ Len(DropDuplicates(group)) >= min_points

\* The index taken as it is, without the modulo.
ColorUnwrapped(color_idx) == color_idx

\* Line 284: colors[color_idx % len(colors)], a color being its position
\* in the palette.
Color(color_idx) == color_idx % NumColors

\* Every point after the first gets a circle marker, the last included.
IsIntermediateOrLast(i, n) == i > 0

\* Line 333: place i (counted from 0) of a track of n points is neither
\* the start nor the end.
IsIntermediate(i, n) == i > 0 /\ i < n - 1

\* The places of 0 .. n - 1 that satisfy IsIntermediate, in order.
RECURSIVE IntermediatePlaces(_, _)
IntermediatePlaces(i, n) ==
    IF i >= n THEN <<>>
    ELSE IF IsIntermediate(i, n) THEN <<i>> \o IntermediatePlaces(i + 1, n)
         ELSE IntermediatePlaces(i + 1, n)

\* The path drawn for one group, lines 274-347: the polyline over the
\* coordinates, the start marker at group.iloc[0], the end marker at
\* group.iloc[-1], and the circle markers of the points in between.
Path(aircraft_id, group, color_idx) ==
    LET track == DropDuplicates(group)
        n == Len(track)
        location(k) == <<track[k].latitude, track[k].longitude>>
        places == IntermediatePlaces(0, n)
    IN  [aircraft_id |-> aircraft_id,
         track |-> track,
         coordinates |-> [k \in 1 .. n |-> location(k)],
         times |-> [k \in 1 .. n |-> track[k].timestamp],
         color |-> Color(color_idx),
         start |-> [location |-> location(1), icon |-> "green"],
         end |-> [location |-> location(n), icon |-> "red"],
         intermediate |-> [k \in 1 .. Len(places) |->
                            [location |-> location(places[k] + 1),
                             point |-> places[k] + 1,
                             color |-> Color(color_idx)]]]

\* The loop of lines 265-349 from group k on, color_idx paths drawn so far.
RECURSIVE DrawPaths(_, _, _, _, _)
DrawPaths(keys, groups, k, min_points, color_idx) ==
    IF k > Len(keys) THEN <<>>
    ELSE IF Draws(groups[k], min_points)
         THEN <<Path(keys[k], groups[k], color_idx)>>
                \o DrawPaths(keys, groups, k + 1, min_points, color_idx + 1)
         ELSE DrawPaths(keys, groups, k + 1, min_points, color_idx)

CreateFlightPaths(min_points) ==
    /\ pc = "loaded"
    /\ IF Empty(data)
       THEN /\ out' = [NoOut EXCEPT !.op = "create_flight_paths",
                                    !.returned = "None",
                                    !.min_points = min_points]
            /\ argsort' = argsort
       ELSE \E sorted \in SortedGroups(data, argsort) :
            LET paths == DrawPaths(GroupKeys(data), sorted.groups, 1, min_points, 0)
            IN  /\ out' = [NoOut EXCEPT
                        !.op = "create_flight_paths",
                        !.returned = "map",
                        !.min_points = min_points,
                        !.groups = sorted.groups,
                        !.paths = paths,
                        !.paths_created = Len(paths)]
                /\ argsort' = sorted.memo
    /\ UNCHANGED <<file, data, pc, log, err, csv, saved>>

-----------------------------------------------------------------------------
(* create_heatmap *)

\* One point per position: the rows at a position already seen left out.
HeatDataDistinct(frame) ==
    LET kept == DropDuplicates(frame)
    IN  [k \in 1 .. Len(kept) |-> <<kept[k].latitude, kept[k].longitude>>]

\* Line 396: one [latitude, longitude] per row of the store, in store order.
HeatData(frame) ==
    [k \in 1 .. Len(frame) |-> <<frame[k].latitude, frame[k].longitude>>]

CreateHeatmap ==
    /\ pc = "loaded"
    /\ IF Empty(data)
       THEN out' = [NoOut EXCEPT !.op = "create_heatmap", !.returned = "None"]
       ELSE out' = [NoOut EXCEPT
                !.op = "create_heatmap",
                !.returned = "map",
                !.heat_data = HeatData(data)]
    /\ UNCHANGED <<file, data, pc, log, err, argsort, csv, saved>>

-----------------------------------------------------------------------------
(* generate_statistics *)

\* a.fillna(b): cell a, or cell b where a is NaN.
Fillna(a, b) == IF a # <<>> THEN a ELSE b

\* column.isna().sum(): the number of cells of the column that are NaN.
IsnaSum(column) ==
    Cardinality({ k \in 1 .. Len(column) : column[k] = <<>> })

\* len(column.dropna()): the number of cells of the column that are not.
DropnaLen(column) ==
    Cardinality({ k \in 1 .. Len(column) : column[k] # <<>> })

\* A section that is printed even when no row has the value.
CoverageAlways(present, total) == <<[with |-> present, of |-> total]>>

\* Lines 436-441 and 445-450: the section is printed only when some row
\* has the value, and then tells how many of the rows have it.
Coverage(present, total) ==
    IF present = 0 THEN <<>> ELSE <<[with |-> present, of |-> total]>>

\* str.strip(): the blanks at both ends removed.
RECURSIVE LStrip(_)
LStrip(str) ==
    IF str # <<>> /\ Head(str) = " " THEN LStrip(Tail(str)) ELSE str

RECURSIVE RStrip(_)
RStrip(str) ==
    IF str # <<>> /\ str[Len(str)] = " "
    THEN RStrip(SubSeq(str, 1, Len(str) - 1))
    ELSE str

Strip(str) == LStrip(RStrip(str))

\* The callsigns left by dropna(): the cells that are not NaN, as written.
Callsigns(frame) ==
    { frame[k].callsign[1] : k \in { j \in 1 .. Len(frame) : frame[j].callsign # <<>> } }

\* value_counts(): how many rows hold the callsign.
ValueCount(frame, callsign) ==
    Cardinality({ k \in 1 .. Len(frame) : frame[k].callsign = <<callsign>> })

\* The orders value_counts() can list the callsigns in: by count, largest
\* first, callsigns of equal count in any order.
RECURSIVE ValueCountsOrders(_, _)
ValueCountsOrders(frame, left) ==
    IF left = {} THEN {<<>>}
    ELSE LET first == { c \in left :
                        \A d \in left : ValueCount(frame, c) >= ValueCount(frame, d) }
         IN  UNION { { <<c>> \o rest : rest \in ValueCountsOrders(frame, left \ {c}) }
                     : c \in first }

\* head(n): the first n entries.
HeadN(seq, n) == SubSeq(seq, 1, IF Len(seq) < n THEN Len(seq) ELSE n)

\* The columns of the frame the report reads.
BaroAltitude(frame) == [k \in 1 .. Len(frame) |-> frame[k].baro_altitude]
GeoAltitude(frame) == [k \in 1 .. Len(frame) |-> frame[k].geo_altitude]
Velocity(frame) == [k \in 1 .. Len(frame) |-> frame[k].velocity]
Callsign(frame) == [k \in 1 .. Len(frame) |-> frame[k].callsign]

\* Line 435: baro_altitude.fillna(geo_altitude).
FilledAltitude(frame) ==
    [k \in 1 .. Len(frame) |->
        Fillna(frame[k].baro_altitude, frame[k].geo_altitude)]

\* Line 467: the NaN cells of the two altitude columns, added up.
MissingAltitude(frame) ==
    IsnaSum(BaroAltitude(frame)) + IsnaSum(GeoAltitude(frame))

\* The report of lines 412-472 for a store that is not empty: the record
\* counts, the altitude and speed sections, the callsigns in the order
\* given (each printed stripped, with its count), the data quality figures.
\* The means and extrema are left out.
Statistics(frame, callsigns) ==
    [total |-> Len(frame),
     unique_aircraft |-> Cardinality({ frame[k].icao24 : k \in 1 .. Len(frame) }),
     altitude |-> Coverage(DropnaLen(FilledAltitude(frame)), Len(frame)),
     speed |-> Coverage(DropnaLen(Velocity(frame)), Len(frame)),
     top_callsigns |-> [k \in 1 .. Len(callsigns) |->
                        [callsign |-> Strip(callsigns[k]),
                         count |-> ValueCount(frame, callsigns[k])]],
     missing_callsign |-> IsnaSum(Callsign(frame)),
     missing_altitude |-> MissingAltitude(frame),
     missing_speed |-> IsnaSum(Velocity(frame))]

GenerateStatistics ==
    /\ pc = "loaded"
    /\ IF Empty(data)
       THEN out' = [NoOut EXCEPT !.op = "generate_statistics", !.returned = "None"]
       ELSE \E order \in ValueCountsOrders(data, Callsigns(data)) :
            out' = [NoOut EXCEPT
                !.op = "generate_statistics",
                !.returned = "None",
                !.printed = <<Statistics(data, HeadN(order, TopN))>>]
    /\ UNCHANGED <<file, data, pc, log, err, argsort, csv, saved>>

-----------------------------------------------------------------------------
(* debug_data *)

\* Lines 506-508: the first and the last row of one aircraft's rows sorted
\* by timestamp, printed for an aircraft with more than one row.
FirstAndLast(group) ==
    [icao24 |-> group[1].icao24,
     count |-> Len(group),
     first |-> <<group[1].timestamp, group[1].latitude, group[1].longitude>>,
     last |-> <<group[Len(group)].timestamp, group[Len(group)].latitude,
                group[Len(group)].longitude>>]

\* Lines 499-508: what is printed for the aircraft with more than one row
\* (in the order of value_counts, which is left out here).
MultiPoint(groups) ==
    { FirstAndLast(groups[k]) : k \in { j \in 1 .. Len(groups) : Len(groups[j]) > 1 } }

\* debug_data prints the columns, the first three rows and, for the
\* aircraft with more than one row, the first and last row in time order
\* (head(5) of them: the stores this action runs on have fewer aircraft).
DebugData ==
    /\ pc = "loaded"
    /\ IF Empty(data)
       THEN /\ out' = [NoOut EXCEPT !.op = "debug_data", !.returned = "None"]
            /\ argsort' = argsort
       ELSE \E sorted \in SortedGroups(data, argsort) :
            /\ out' = [NoOut EXCEPT
                    !.op = "debug_data",
                    !.returned = "None",
                    !.printed = <<[records |-> HeadN(data, 3),
                                   multi_point |-> MultiPoint(sorted.groups)]>>]
            /\ argsort' = sorted.memo
    /\ UNCHANGED <<file, data, pc, log, err, csv, saved>>

-----------------------------------------------------------------------------
(* Scrapper.save_to_csv *)

\* The file does not exist.
Missing == [exists |-> FALSE, lines |-> <<>>]

\* The file exists and has no content.
EmptyFile == [exists |-> TRUE, lines |-> <<>>]

\* The line writeheader() writes: the keys of the first record.
HeaderLine == [kind |-> "header", timestamp |-> 0, icao24 |-> "icao24"]

\* The line of one aircraft of the poll made at the given instant.
RecordLine(timestamp, icao24) ==
    [kind |-> "record", timestamp |-> timestamp, icao24 |-> icao24]

\* What get_aircraft_data can return at the poll number timestamp: a list
\* of the aircraft seen, all stamped with the instant of the poll; the
\* empty list when none was seen or the request failed.
Batches(timestamp) ==
    { [k \in 1 .. Len(ids) |-> RecordLine(timestamp, ids[k])]
      : ids \in SeqsUpTo(Icao24Vals, MaxBatch) }

\* os.path.exists(filename): the content not looked at.
FileExistsOnly(f) == f.exists

\* Lines 58-65: the file opens for reading and has at least one line.
FileExists(f) == f.exists /\ Len(f.lines) > 0

\* Line 68.
Mode(file_exists) == IF file_exists THEN "a" ELSE "w"

\* open(filename, mode): 'w' creates or truncates, 'a' keeps the lines.
Open(f, mode) ==
    IF mode = "w" THEN [exists |-> TRUE, lines |-> <<>>]
    ELSE [exists |-> TRUE, lines |-> f.lines]

\* Lines 70-78: the header if the file is new, then one line per record.
Written(f, file_exists, aircraft_data) ==
    [f EXCEPT !.lines =
        @ \o (IF file_exists THEN <<>> ELSE <<HeaderLine>>) \o aircraft_data]

\* save_to_csv(aircraft_data, filename); the loop of lines 91-96 calls it
\* once per poll. Nothing is touched for an empty batch.
SaveToCsv(aircraft_data) ==
    /\ Len(saved.batches) < MaxCalls
    /\ IF aircraft_data = <<>>
       THEN csv' = csv
       ELSE LET file_exists == FileExists(csv)
            IN  csv' = Written(Open(csv, Mode(file_exists)), file_exists,
                               aircraft_data)
    /\ saved' = [saved EXCEPT !.batches = Append(@, aircraft_data)]
    /\ UNCHANGED <<file, data, pc, log, err, out, argsort>>

-----------------------------------------------------------------------------
(* The specifications *)

InitVars ==
    /\ data = <<>>
    /\ pc = "new"
    /\ log = "none"
    /\ err = "none"
    /\ out = NoOut
    /\ argsort = {}
    /\ csv = Missing
    /\ saved = [initial |-> Missing, batches |-> <<>>]

Init ==
    /\ file \in ValidFiles
    /\ InitVars

InitLoad ==
    /\ file \in LoadFiles
    /\ InitVars

Next ==
    \/ LoadData
    \/ CreateTimeAnimation
    \/ \E min_points \in MinPointsVals : CreateFlightPaths(min_points)

InitPolled ==
    /\ file \in PolledFiles
    /\ InitVars

Spec == Init /\ [][Next]_vars

SpecPolled == InitPolled /\ [][Next]_vars

SpecLoad == InitLoad /\ [][Next]_vars

\* Every call of the analyzer.
NextAll ==
    \/ LoadData
    \/ DebugData
    \/ CreateStaticMap
    \/ CreateTimeAnimation
    \/ \E min_points \in MinPointsVals : CreateFlightPaths(min_points)
    \/ CreateHeatmap
    \/ GenerateStatistics

SpecLoadAll == InitLoad /\ [][NextAll]_vars

InitStats ==
    /\ file \in StatFiles
    /\ InitVars

SpecStats == InitStats /\ [][NextAll]_vars

\* The polling loop alone, on a file that is missing or empty at first.
InitScrapper ==
    /\ file = Unreadable
    /\ data = <<>>
    /\ pc = "new"
    /\ log = "none"
    /\ err = "none"
    /\ out = NoOut
    /\ argsort = {}
    /\ csv \in {Missing, EmptyFile}
    /\ saved = [initial |-> csv, batches |-> <<>>]

NextScrapper ==
    \E aircraft_data \in Batches(Len(saved.batches) + 1) : SaveToCsv(aircraft_data)

SpecScrapper == InitScrapper /\ [][NextScrapper]_vars

InitTracks ==
    /\ file \in TrackFiles \cup FleetFiles
    /\ InitVars

SpecTracks == InitTracks /\ [][Next]_vars

-----------------------------------------------------------------------------
(* Claims about load_data, checked under SpecLoad *)

Loaded == pc = "loaded"

\* The rows of the file as load_data sees them once the timestamps parsed.
Parsed == ToDatetime(ReadCsv(file))

\* The index labels of the rows of the store.
StoreIdx == { data[k].idx : k \in 1 .. Len(data) }

SortedByTimestamp(frame) ==
    \A i, j \in 1 .. Len(frame) :
        i < j => frame[i].timestamp <= frame[j].timestamp

\* Rows of equal timestamp stand in the order they had in the file.
TiesInInputOrder(frame) ==
    \A i, j \in 1 .. Len(frame) :
        (i < j /\ frame[i].timestamp = frame[j].timestamp)
            => frame[i].idx < frame[j].idx

\* Every row of the store is a row of the file, each at most once.
RowsOfFile ==
    /\ Cardinality(StoreIdx) = Len(data)
    /\ \A k \in 1 .. Len(data) :
        /\ data[k].idx \in 1 .. Len(file.rows)
        /\ data[k] = Parsed[data[k].idx]

\* C1, as stated: the store produced by load_data is sorted non-decreasing
\* by timestamp, and retained rows of equal timestamp keep the relative
\* order they had in the input (a stable sort).
C1_SortedAndStable ==
    Loaded => (SortedByTimestamp(data) /\ TiesInInputOrder(data))

\* C1, amended: the store produced by load_data holds rows of the input,
\* each at most once, sorted non-decreasing by timestamp; the order of rows
\* of equal timestamp is not fixed.
C1_SortedByTimestamp ==
    Loaded => (SortedByTimestamp(data) /\ RowsOfFile)

\* C1's case: the file was out of time order, and the store holds two rows
\* of equal timestamp in the reverse of their input order.
C1_Witness ==
    /\ Loaded
    /\ Len(data) = 3
    /\ \E i, j \in 1 .. Len(file.rows) :
        i < j /\ file.rows[i].timestamp.t > file.rows[j].timestamp.t
    /\ \E i, j \in 1 .. Len(data) :
        i < j /\ data[i].timestamp = data[j].timestamp /\ data[i].idx > data[j].idx

\* A coordinate cell that is missing.
IsMissing(cell) == cell = <<>>

\* A coordinate cell that is missing or holds a value outside +-limit.
IsInvalid(cell, limit) ==
    cell = <<>> \/ cell[1] < 0 - limit \/ cell[1] > limit

\* The rows of the file the claim C2 counts as dropped.
RowsDroppedAsClaimed ==
    { k \in 1 .. Len(file.rows) :
        \/ IsInvalid(file.rows[k].latitude, 90)
        \/ IsInvalid(file.rows[k].longitude, 180)
        \/ ~file.rows[k].timestamp.ok }

\* The rows of the file without a latitude or without a longitude.
RowsWithoutCoords ==
    { k \in 1 .. Len(file.rows) :
        IsMissing(file.rows[k].latitude) \/ IsMissing(file.rows[k].longitude) }

\* C2, as stated: a row is absent from the store if its latitude or
\* longitude is missing or not within +-90 / +-180, every other row with a
\* parsable timestamp is retained, and the store size is the input size
\* minus the rows with missing or invalid coordinates or unparsable
\* timestamps.
C2_DropsInvalidCoords ==
    (Loaded /\ file.readable) =>
        /\ StoreIdx = (1 .. Len(file.rows)) \ RowsDroppedAsClaimed
        /\ Len(data) = Len(file.rows) - Cardinality(RowsDroppedAsClaimed)

\* C2, amended: when every timestamp of the input parses, a row is absent
\* from the store exactly if its latitude or longitude is missing (a
\* coordinate outside +-90 / +-180 is retained), and the store size is the
\* input size minus the rows with a missing coordinate; when some timestamp
\* does not parse the store is empty.
C2_DropsMissingCoords ==
    (Loaded /\ file.readable) =>
        IF \E k \in 1 .. Len(file.rows) : ~file.rows[k].timestamp.ok
        THEN data = <<>>
        ELSE /\ StoreIdx = (1 .. Len(file.rows)) \ RowsWithoutCoords
             /\ Len(data) = Len(file.rows) - Cardinality(RowsWithoutCoords)

\* C2's case: of three rows, one without a latitude was dropped and one
\* with latitude 95 was retained.
C2_Witness ==
    /\ Loaded
    /\ Len(file.rows) = 3
    /\ \E k \in 1 .. 3 : IsMissing(file.rows[k].latitude) /\ k \notin StoreIdx
    /\ \E k \in 1 .. 3 : file.rows[k].latitude = <<95>> /\ k \in StoreIdx

\* The rows of the file that are well formed in the sense of load_data:
\* both coordinates present and the timestamp parsable.
WellFormedRows ==
    { k \in 1 .. Len(file.rows) :
        /\ file.rows[k].timestamp.ok
        /\ ~IsMissing(file.rows[k].latitude)
        /\ ~IsMissing(file.rows[k].longitude) }

HasUnparsableTimestamp ==
    \E k \in 1 .. Len(file.rows) : ~file.rows[k].timestamp.ok

\* C3, as stated: a row whose timestamp cannot be parsed is dropped
\* locally; with such a row among otherwise valid rows, the store still
\* contains all the other valid rows.
C3_BadTimestampDroppedLocally ==
    (Loaded /\ HasUnparsableTimestamp) => StoreIdx = WellFormedRows

\* C3, amended: a row whose timestamp cannot be parsed is not dropped
\* locally; it fails the whole load, which raises nothing to the caller,
\* prints the error and leaves an empty store, the other valid rows lost.
C3_BadTimestampEmptiesStore ==
    (Loaded /\ HasUnparsableTimestamp) =>
        (data = <<>> /\ log = "error" /\ err = "none")

\* C3's case: one row with an unparsable timestamp among two valid rows,
\* loaded.
C3_Witness ==
    /\ Loaded
    /\ Len(file.rows) = 3
    /\ Cardinality(WellFormedRows) = 2
    /\ HasUnparsableTimestamp

\* C4, as stated: loading ends either in a store or in a LoadError, the
\* LoadError exactly when the input is structurally unreadable; an
\* unreadable input is never handed to the caller as an empty store.
C4_LoadErrorIffUnreadable ==
    Loaded =>
        /\ ReadCsvRaises(file) => err = "LoadError"
        /\ ~ReadCsvRaises(file) => err = "none"

\* C4, amended: loading never raises; a structurally unreadable input ends
\* as an empty store with the error only printed, which a caller cannot
\* tell from the empty store of an input whose rows were all filtered out;
\* an input whose rows are all filtered out is never reported as an error.
C4_NeverRaises ==
    Loaded =>
        /\ err = "none"
        /\ ReadCsvRaises(file) => (data = <<>> /\ log = "error")
        /\ (file.readable /\ ~HasUnparsableTimestamp /\ WellFormedRows = {})
                => (data = <<>> /\ log = "loaded")

\* C4's case: the unreadable file, loaded.
C4_Witness ==
    /\ Loaded
    /\ ReadCsvRaises(file)
    /\ data = <<>>

-----------------------------------------------------------------------------
(* Claims about create_flight_paths, checked under Spec *)

\* create_flight_paths has run on a store with rows.
PathsDrawn ==
    /\ Loaded
    /\ out.op = "create_flight_paths"
    /\ out.returned = "map"

Coords(row) == <<row.latitude, row.longitude>>

\* The aircraft identities of the store.
Identities == { data[k].icao24 : k \in 1 .. Len(data) }

\* The rows of the store of one identity.
SourceRows(id) == { k \in 1 .. Len(data) : data[k].icao24 = id }

\* The group of one identity as create_flight_paths sorted it.
SortedGroupOf(id) ==
    out.groups[CHOOSE k \in 1 .. Len(out.groups) : GroupKeys(data)[k] = id]

\* The store holds three records of one identity at t = 0, 1, 2, the last
\* two at one position and the first elsewhere.
ThreeWithLastTwoEqual ==
    /\ Len(data) = 3
    /\ data[1].icao24 = data[2].icao24 /\ data[2].icao24 = data[3].icao24
    /\ data[1].timestamp = 0 /\ data[2].timestamp = 1 /\ data[3].timestamp = 2
    /\ Coords(data[1]) # Coords(data[2])
    /\ Coords(data[2]) = Coords(data[3])

\* C5: every Track built for path drawing has no two consecutive points at
\* the same (latitude, longitude), is ordered by timestamp ascending and is
\* no longer than its identity's source group; three records at t = 0, 1, 2
\* with the same coordinates at t = 1 and t = 2 give the Track of the
\* records of t = 0 and t = 1.
C5_TrackInvariants ==
    PathsDrawn =>
        /\ \A p \in 1 .. Len(out.paths) :
            LET path == out.paths[p]
            IN  /\ \A k \in 1 .. (Len(path.coordinates) - 1) :
                    path.coordinates[k] # path.coordinates[k + 1]
                /\ \A k \in 1 .. (Len(path.times) - 1) :
                    path.times[k] <= path.times[k + 1]
                /\ Len(path.coordinates) <= Cardinality(SourceRows(path.aircraft_id))
                /\ Len(path.times) = Len(path.coordinates)
        /\ (ThreeWithLastTwoEqual /\ out.min_points <= 2) =>
            /\ Len(out.paths) = 1
            /\ out.paths[1].times = <<0, 1>>
            /\ out.paths[1].coordinates = <<Coords(data[1]), Coords(data[2])>>

\* C5's case: the three records of the scenario, and the path drawn with
\* the default min_points.
C5_Witness ==
    /\ PathsDrawn
    /\ ThreeWithLastTwoEqual
    /\ out.min_points = 2
    /\ Len(out.paths) = 1

\* The positions in the sorted group of the records kept in the Track.
KeptIn(path) == { path.track[k].idx : k \in 1 .. Len(path.track) }

\* The records of the group are at different instants, so that the
\* group has one time order.
StrictTimeOrder(group) ==
    \A j \in 2 .. Len(group) : group[j - 1].timestamp < group[j].timestamp

\* C6, as stated: a record of a group is dropped from the Track if and only
\* if its (latitude, longitude) equals that of the record just before it in
\* the group's time order; a record that returns to an earlier coordinate
\* (A, B, A) is retained. Stated for the groups that have one time order.
C6_ConsecutiveRunsCollapsed ==
    PathsDrawn =>
        \A p \in 1 .. Len(out.paths) :
            LET path == out.paths[p]
                group == SortedGroupOf(path.aircraft_id)
            IN  StrictTimeOrder(group) =>
                    \A j \in 1 .. Len(group) :
                        (j \notin KeptIn(path))
                            <=> (j > 1 /\ Coords(group[j]) = Coords(group[j - 1]))

\* C6, amended: duplicate removal is keep-first over the whole group, not
\* over consecutive runs: a record of a group is dropped from the Track if
\* and only if its (latitude, longitude) equals that of some earlier record
\* of the group in the group's time order, so a record that returns to a
\* coordinate visited earlier (A, B, A) is dropped; the records kept stay
\* in time order.
C6_FirstOccurrencesKept ==
    PathsDrawn =>
        \A p \in 1 .. Len(out.paths) :
            LET path == out.paths[p]
                group == SortedGroupOf(path.aircraft_id)
            IN  /\ \A j \in 1 .. Len(group) :
                    (j \notin KeptIn(path))
                        <=> (\E i \in 1 .. (j - 1) : Coords(group[i]) = Coords(group[j]))
                /\ \A k \in 1 .. Len(path.track) :
                    /\ path.track[k] = group[path.track[k].idx]
                    /\ path.coordinates[k] = Coords(path.track[k])
                    /\ k > 1 => path.track[k - 1].idx < path.track[k].idx

\* C6's case: a group that goes A, B, A, whose path was drawn with two
\* points.
C6_Witness ==
    /\ PathsDrawn
    /\ \E p \in 1 .. Len(out.paths) :
        LET group == SortedGroupOf(out.paths[p].aircraft_id)
        IN  /\ Len(group) = 3
            /\ StrictTimeOrder(group)
            /\ Coords(group[1]) # Coords(group[2])
            /\ Coords(group[3]) = Coords(group[1])
            /\ Len(out.paths[p].track) = 2

\* The length of an identity's Track once duplicates are dropped: the
\* number of different positions among its records.
TrackLength(id) == Cardinality({ Coords(data[k]) : k \in SourceRows(id) })

\* The identities whose Track reaches min_points.
MeetingThreshold(min_points) ==
    { id \in Identities : TrackLength(id) >= min_points }

\* C7: a path is emitted for an identity if and only if the length of its
\* Track after duplicates are dropped is at least min_points; identities
\* below the threshold produce no path and no error, and the number of
\* paths reported is the number of identities meeting the threshold.
C7_PathIffThreshold ==
    PathsDrawn =>
        /\ { out.paths[p].aircraft_id : p \in 1 .. Len(out.paths) }
                = MeetingThreshold(out.min_points)
        /\ out.paths_created = Cardinality(MeetingThreshold(out.min_points))
        /\ Len(out.paths) = out.paths_created
        /\ err = "none"

\* C7's case: two identities and min_points = 2, one identity meeting it
\* and drawn, the other below it and not drawn.
C7_Witness ==
    /\ PathsDrawn
    /\ out.min_points = 2
    /\ out.paths_created = 1
    /\ \E id \in Identities : TrackLength(id) < 2

(* The markers and the colors of the paths, checked under SpecTracks *)

\* C11: for each Track of length n that meets min_points,
\* create_flight_paths emits exactly one polyline over the n deduplicated
\* coordinates in time order, one start marker at the first point, one end
\* marker at the last point, and one intermediate circle marker for each
\* point strictly between the first and the last, n - 2 of them when
\* n >= 2 (none when n = 2); the coordinates and the markers of a Track are
\* those of the records of its own identity, whatever the other identities
\* of the store.
C11_PolylineAndMarkers ==
    PathsDrawn =>
        /\ \A id \in MeetingThreshold(out.min_points) :
            Cardinality({ p \in 1 .. Len(out.paths) :
                            out.paths[p].aircraft_id = id }) = 1
        /\ \A p \in 1 .. Len(out.paths) :
            LET path == out.paths[p]
                n == Len(path.coordinates)
                own == SourceRows(path.aircraft_id)
            IN  /\ n = TrackLength(path.aircraft_id)
                /\ n >= out.min_points
                /\ { path.coordinates[k] : k \in 1 .. n }
                        = { Coords(data[j]) : j \in own }
                /\ \A k \in 1 .. n :
                    \E j \in own :
                        /\ Coords(data[j]) = path.coordinates[k]
                        /\ data[j].timestamp = path.times[k]
                /\ \A k \in 1 .. (n - 1) : path.times[k] <= path.times[k + 1]
                /\ path.start.location = path.coordinates[1]
                /\ path.end.location = path.coordinates[n]
                /\ Len(path.intermediate) = Cardinality(2 .. (n - 1))
                /\ n >= 2 => Len(path.intermediate) = n - 2
                /\ \A k \in 1 .. Len(path.intermediate) :
                    path.intermediate[k].location = path.coordinates[k + 1]

\* C11's case: two identities in the store, one of them drawn with three
\* points and so with one intermediate marker.
C11_Witness ==
    /\ PathsDrawn
    /\ Cardinality(Identities) = 2
    /\ \E p \in 1 .. Len(out.paths) :
        /\ Len(out.paths[p].coordinates) = 3
        /\ Len(out.paths[p].intermediate) = 1

\* C19: path colors are assigned round-robin over the fixed palette in the
\* order the icao24 groups are iterated: the k-th emitted Track (from 0)
\* gets palette entry k mod (palette length), its polyline and its
\* intermediate markers share that color, and an identity that emits no
\* path does not consume a palette slot.
C19_ColorsRoundRobin ==
    PathsDrawn =>
        /\ \A p \in 1 .. Len(out.paths) :
            /\ out.paths[p].color = (p - 1) % NumColors
            /\ \A k \in 1 .. Len(out.paths[p].intermediate) :
                out.paths[p].intermediate[k].color = out.paths[p].color
        /\ \A p, q \in 1 .. Len(out.paths) :
            p < q => IcaoRank(out.paths[p].aircraft_id)
                        < IcaoRank(out.paths[q].aircraft_id)
        /\ { out.paths[p].aircraft_id : p \in 1 .. Len(out.paths) }
                = MeetingThreshold(out.min_points)

\* C19's case: more paths than the palette has colors, so that the colors
\* start over, some identities of the store without a path, and a path
\* with an intermediate marker.
C19_Witness ==
    /\ PathsDrawn
    /\ Len(out.paths) > NumColors
    /\ out.paths[NumColors + 1].color = 0
    /\ Cardinality(Identities) > Len(out.paths)
    /\ Len(out.paths[1].intermediate) = 1

-----------------------------------------------------------------------------
(* Claims about create_time_animation: the period under SpecPolled, the
   frames under Spec *)

\* create_time_animation has run on a store with rows.
AnimationDrawn ==
    /\ Loaded
    /\ out.op = "create_time_animation"
    /\ out.returned = "map"

\* The differences of consecutive records of the whole store, all aircraft
\* together, in ticks.
StoreDeltas ==
    [k \in 1 .. (Len(data) - 1) |-> data[k + 1].timestamp - data[k].timestamp]

\* The value that stands at place r (from 0) when s is put in order.
ValueAtRank(s, r) ==
    CHOOSE x \in { s[k] : k \in 1 .. Len(s) } :
        /\ Cardinality({ k \in 1 .. Len(s) : s[k] < x }) <= r
        /\ Cardinality({ k \in 1 .. Len(s) : s[k] <= x }) > r

\* Twice the median of s, in ticks.
TwiceMedian(s) ==
    ValueAtRank(s, (Len(s) - 1) \div 2) + ValueAtRank(s, Len(s) \div 2)

\* Twice a number of seconds, in ticks.
TwiceSeconds(n) == 2 * n * TicksPerSec

\* The period the thresholds give for twice a delta in ticks: below 30 s
\* 10 s, from 30 s and below 120 s 30 s, from 120 s 60 s.
PeriodOfDelta(delta2) ==
    IF delta2 < TwiceSeconds(30) THEN "PT10S"
    ELSE IF delta2 < TwiceSeconds(120) THEN "PT30S"
    ELSE "PT1M"

\* C8, as stated: the period is a function of the median delta alone, below
\* 30 s 10 s, from 30 s 30 s, from 120 s 60 s, the boundaries in the higher
\* bracket; a store of fewer than two records yields the default of 60 s.
C8_PeriodDefaultSixty ==
    AnimationDrawn =>
        IF Len(data) < 2
        THEN out.period = "PT1M"
        ELSE out.period = PeriodOfDelta(TwiceMedian(StoreDeltas))

\* C8, amended: the period is a function of the median delta alone, below
\* 30 s 10 s, from 30 s 30 s, from 120 s 60 s, the boundaries in the higher
\* bracket; a store of exactly one record takes the default delta of 60 s,
\* which the same thresholds map to the period of 30 s, and an empty store
\* yields no period at all.
C8_PeriodThresholds ==
    /\ AnimationDrawn =>
        /\ Len(data) >= 2 => out.period = PeriodOfDelta(TwiceMedian(StoreDeltas))
        /\ Len(data) = 1 =>
            (out.avg_interval = TwiceSeconds(60) /\ out.period = "PT30S")
    /\ (Loaded /\ out.op = "create_time_animation" /\ data = <<>>) =>
        (out.period = "none" /\ out.returned = "None")

\* C8's case: a store of three records polled exactly 30 s apart, whose
\* animation got the period of 30 s.
C8_Witness ==
    /\ AnimationDrawn
    /\ Len(data) = 3
    /\ \A k \in 1 .. 2 : StoreDeltas[k] = 30 * TicksPerSec
    /\ out.period = "PT30S"

\* The store's deltas are 10 s, 10 s, 200 s, 10 s.
DeltasOfScenario ==
    /\ Len(data) = 5
    /\ StoreDeltas = <<10 * TicksPerSec, 10 * TicksPerSec,
                       200 * TicksPerSec, 10 * TicksPerSec>>

\* C9: the delta fed to the thresholds is the median of the consecutive
\* timestamp differences over the whole time-sorted store, all aircraft
\* together; the deltas 10 s, 10 s, 200 s, 10 s give the median 10 s and
\* the period 10 s.
C9_MedianOfStoreDeltas ==
    (AnimationDrawn /\ Len(data) >= 2) =>
        /\ out.avg_interval = TwiceMedian(StoreDeltas)
        /\ DeltasOfScenario =>
            (out.avg_interval = TwiceSeconds(10) /\ out.period = "PT10S")

\* C9's case: the deltas of the scenario, met by two aircraft taking turns,
\* and the animation made.
C9_Witness ==
    /\ AnimationDrawn
    /\ DeltasOfScenario
    /\ Cardinality(Identities) = 2

\* Feature i may stand before feature j: its timestamp is earlier, or the
\* same with an icao24 that is not later.
InFrameOrder(f, g) ==
    \/ f.timestamp < g.timestamp
    \/ f.timestamp = g.timestamp /\ IcaoRank(f.icao24) <= IcaoRank(g.icao24)

\* C10: create_time_animation emits exactly one frame feature per record of
\* the store, in ascending timestamp order, equal timestamps in ascending
\* icao24 order; no frame is preceded by a frame with a later time.
C10_FramesInOrder ==
    AnimationDrawn =>
        /\ Len(out.features) = Len(data)
        /\ \A k \in 1 .. Len(data) :
            Cardinality({ i \in 1 .. Len(out.features) : out.features[i] = Feature(data[k]) })
                = Cardinality({ i \in 1 .. Len(data) : Feature(data[i]) = Feature(data[k]) })
        /\ \A i, j \in 1 .. Len(out.features) :
            i < j => /\ InFrameOrder(out.features[i], out.features[j])
                     /\ out.features[i].time <= out.features[j].time

\* C10's case: the store holds two records of one timestamp with the later
\* icao24 first, and the frames have them the other way round.
C10_Witness ==
    /\ AnimationDrawn
    /\ \E k \in 1 .. (Len(data) - 1) :
        /\ data[k].timestamp = data[k + 1].timestamp
        /\ data[k].icao24 = "bbb" /\ data[k + 1].icao24 = "aaa"
        /\ out.features[k].icao24 = "aaa" /\ out.features[k + 1].icao24 = "bbb"

-----------------------------------------------------------------------------
(* Claims about every call of the analyzer, checked under SpecLoadAll *)

HeatmapDrawn ==
    /\ Loaded
    /\ out.op = "create_heatmap"
    /\ out.returned = "map"

\* C12: the density list of create_heatmap has exactly one point per record
\* of the store, at that record's coordinate, records at a position already
\* seen and records of identities below the path threshold included; its
\* length is the size of the store, whatever min_points was used before.
C12_HeatmapOnePointPerRecord ==
    HeatmapDrawn =>
        /\ Len(out.heat_data) = Len(data)
        /\ \A k \in 1 .. Len(data) : out.heat_data[k] = Coords(data[k])

\* C12's case: a heatmap of a store with two records at one position and an
\* identity with a single record.
C12_Witness ==
    /\ HeatmapDrawn
    /\ Len(out.heat_data) = 3
    /\ \E i, j \in 1 .. Len(data) : i < j /\ Coords(data[i]) = Coords(data[j])
    /\ \E id \in Identities : Cardinality(SourceRows(id)) = 1

\* The calls that return early on an empty store.
SynthesisOps ==
    { "create_static_map", "create_time_animation", "create_flight_paths",
      "create_heatmap", "generate_statistics" }

\* C14: when the store is empty, each of create_static_map,
\* create_time_animation, create_flight_paths, create_heatmap and
\* generate_statistics returns without raising and without emitting any
\* marker, frame, path, density point or statistic.
C14_EmptyStoreNoOutput ==
    (Loaded /\ data = <<>> /\ out.op \in SynthesisOps) =>
        /\ err = "none"
        /\ out.returned = "None"
        /\ out.markers = <<>>
        /\ out.features = <<>>
        /\ out.period = "none"
        /\ out.paths = <<>>
        /\ out.paths_created = 0
        /\ out.heat_data = <<>>
        /\ out.printed = <<>>

\* C14's case: the load failed, the store is empty and a statistics call
\* has returned.
C14_Witness ==
    /\ Loaded
    /\ log = "error"
    /\ data = <<>>
    /\ out.op = "generate_statistics"

\* C15: no call after the load changes the store, so that it holds the
\* same records in the same order as right after load; and building the
\* Tracks twice on the store gives the same groups in the same order, and
\* the same paths when min_points is the same.
C15_StoreUnchanged ==
    [][Loaded =>
        /\ data' = data
        /\ (out.op = "create_flight_paths" /\ out'.op = "create_flight_paths") =>
            /\ out'.groups = out.groups
            /\ out'.min_points = out.min_points => out'.paths = out.paths]_vars

\* C15's case: Tracks built from a store in which one identity has two
\* records at one instant and at different positions, whose order the sort
\* had to choose.
C15_Witness ==
    /\ PathsDrawn
    /\ \E g \in 1 .. Len(out.groups) :
        \E i, j \in 1 .. Len(out.groups[g]) :
            /\ i < j
            /\ out.groups[g][i].timestamp = out.groups[g][j].timestamp
            /\ Coords(out.groups[g][i]) # Coords(out.groups[g][j])

-----------------------------------------------------------------------------
(* Claims about the altitude class and the statistics, checked under
   SpecStats *)

Present(cell) == cell # <<>>

\* The effective altitude as the claims define it: the barometric altitude
\* if present, else the geometric altitude if present, else nothing.
EffectiveAltitude(row) ==
    IF Present(row.baro_altitude) THEN row.baro_altitude
    ELSE row.geo_altitude

\* The class of an effective altitude, 0 standing in when there is none.
AltitudeClass(cell) ==
    LET altitude == IF Present(cell) THEN cell[1] ELSE 0
    IN  IF altitude > 10000 THEN "High"
        ELSE IF altitude > 5000 THEN "Medium"
        ELSE "Low"

ClassOfColor(color) ==
    CASE color = "red" -> "High"
      [] color = "orange" -> "Medium"
      [] color = "green" -> "Low"

StaticMapDrawn ==
    /\ Loaded
    /\ out.op = "create_static_map"
    /\ out.returned = "map"

\* C13: the altitude class of a record is the same in the static snapshot
\* and in the animation frames; it is the class of the barometric altitude
\* if present, else of the geometric altitude if present, else of 0: High
\* above 10000, Medium above 5000, Low otherwise. So no barometric altitude
\* and a geometric one of 15000 is High, a barometric altitude of 0 and a
\* geometric one of 15000 is Low, no altitude at all is Low.
C13_AltitudeClass ==
    /\ StaticMapDrawn =>
        \A k \in 1 .. Len(out.markers) :
            ClassOfColor(out.markers[k].color)
                = AltitudeClass(EffectiveAltitude(data[k]))
    /\ AnimationDrawn =>
        \A k \in 1 .. Len(out.features) :
            ClassOfColor(out.features[k].color)
                = AltitudeClass(EffectiveAltitude(SortValuesTsIcao(data)[k]))

StatisticsPrinted ==
    /\ Loaded
    /\ out.op = "generate_statistics"
    /\ out.printed # <<>>

\* The number of records of the store that have an effective altitude.
WithAltitude ==
    Cardinality({ k \in 1 .. Len(data) : Present(EffectiveAltitude(data[k])) })

\* C16, as stated: the altitude coverage ratio is (records with effective
\* altitude present) / (total records) and is reported for every non-empty
\* store, 0/1 for a single record without altitude.
C16_CoverageAlwaysReported ==
    StatisticsPrinted =>
        out.printed[1].altitude = <<[with |-> WithAltitude, of |-> Len(data)]>>

\* C16, amended: the altitude coverage ratio is (records with effective
\* altitude present) / (total records) and is reported when at least one
\* record has an effective altitude; when none has, the altitude section
\* is left out of the report and no ratio is printed.
C16_CoverageWhenSomeAltitude ==
    StatisticsPrinted =>
        /\ WithAltitude > 0 =>
            out.printed[1].altitude = <<[with |-> WithAltitude, of |-> Len(data)]>>
        /\ WithAltitude = 0 => out.printed[1].altitude = <<>>

\* C16's case: the statistics of a single record without altitude fields.
C16_Witness ==
    /\ StatisticsPrinted
    /\ Len(data) = 1
    /\ WithAltitude = 0
    /\ out.printed[1].altitude = <<>>

\* C17: each missing-field figure (callsign, altitude, speed) counts a
\* record at most once, so that it lies between 0 and the total number of
\* records; altitude is missing when either altitude field is absent, and
\* a record with both absent counts once.
C17_MissingCountedOncePerRecord ==
    StatisticsPrinted =>
        LET report == out.printed[1]
            rows == 1 .. Len(data)
        IN  /\ report.missing_callsign
                    = Cardinality({ k \in rows : ~Present(data[k].callsign) })
            /\ report.missing_speed
                    = Cardinality({ k \in rows : ~Present(data[k].velocity) })
            /\ report.missing_altitude
                    = Cardinality({ k \in rows :
                        ~Present(data[k].baro_altitude)
                            \/ ~Present(data[k].geo_altitude) })
            /\ report.missing_callsign <= report.total
            /\ report.missing_speed <= report.total
            /\ report.missing_altitude <= report.total

\* A callsign of blanks only.
Blank(callsign) == \A k \in 1 .. Len(callsign) : callsign[k] = " "

\* The callsigns of the store that are neither absent nor blank.
NonBlankCallsigns == { c \in Callsigns(data) : ~Blank(c) }

RecordsWith(callsign) ==
    Cardinality({ k \in 1 .. Len(data) : data[k].callsign = <<callsign>> })

\* C18: the top-N callsign list holds only non-blank callsigns (an absent,
\* empty or whitespace-only callsign never appears nor takes a slot), and
\* its entries are the N most frequent of the others, in non-increasing
\* order of count.
C18_TopCallsignsNonBlank ==
    StatisticsPrinted =>
        LET top == out.printed[1].top_callsigns
        IN  /\ \A k \in 1 .. Len(top) : top[k].callsign # <<>>
            /\ Len(top) = IF Cardinality(NonBlankCallsigns) < TopN
                          THEN Cardinality(NonBlankCallsigns) ELSE TopN
            /\ \A k \in 1 .. (Len(top) - 1) : top[k].count >= top[k + 1].count
            /\ \A k \in 1 .. Len(top) :
                \E c \in NonBlankCallsigns :
                    /\ Strip(c) = top[k].callsign
                    /\ RecordsWith(c) = top[k].count

-----------------------------------------------------------------------------
(* Claims about Scrapper.save_to_csv, checked under SpecScrapper *)

RECURSIVE Concat(_)
Concat(seqs) == IF seqs = <<>> THEN <<>> ELSE Head(seqs) \o Concat(Tail(seqs))

\* C20: after any sequence of save_to_csv calls on one file that was
\* missing or empty at first, batches possibly empty, the file has exactly
\* one header line, as its first line, followed by the records of all the
\* non-empty batches in call order, none lost, duplicated or overwritten;
\* as long as every batch was empty the file is as it was at first: not
\* changed, and not created.
C20_OneHeaderThenAllRecords ==
    LET records == Concat(saved.batches)
    IN  /\ records = <<>> => csv = saved.initial
        /\ records # <<>> =>
            /\ csv.exists
            /\ csv.lines = <<HeaderLine>> \o records
            /\ Cardinality({ k \in 1 .. Len(csv.lines) :
                                csv.lines[k].kind = "header" }) = 1

\* C20's case: an empty file, then an empty batch and two batches with
\* records.
C20_Witness ==
    /\ saved.initial = EmptyFile
    /\ Len(saved.batches) = 3
    /\ saved.batches[1] = <<>>
    /\ saved.batches[2] # <<>>
    /\ saved.batches[3] # <<>>
    /\ Len(csv.lines) = 1 + Len(saved.batches[2]) + Len(saved.batches[3])

====
